---- MODULE Spec2Model ----
(***************************************************************************)
(* A model of src/src/grp_krml_group6/data/sets.py: the set persistence    *)
(* functions (save_sets, load_sets) acting on a directory of .npy files,   *)
(* the table functions (pop_target, subset_x_y, split_sets_by_time,        *)
(* data_cleaning) acting on a caller's dataframe, and the plotting         *)
(* helpers' dispatch on `kind`.                                            *)
(*                                                                         *)
(* Three specifications share the module: SpecSets (the directory),        *)
(* SpecData (the table functions) and SpecPlot (the plotting helpers).     *)
(***************************************************************************)
EXTENDS Integers, Sequences, FiniteSets, TLC

VARIABLES
    fs,     \* the directory: a function from the names of the files that exist to their content
    hist,   \* history of the save_sets calls made on the directory
    call,   \* the last call made: its function, arguments and outcome
    df,     \* the caller's dataframe object
    fig     \* the last plotting call and what it drew

vars == <<fs, hist, call, df, fig>>

(***************************************************************************)
(* Optional values: Python's None is the empty sequence, a value v is <<v>>.*)
(* np.zeros(0) is a value, Some(...), and never None.                      *)
(***************************************************************************)
None == <<>>
Some(v) == <<v>>
IsNone(o) == o = <<>>
Val(o) == o[1]

NoCall == [fn |-> "none"]

(***************************************************************************)
(* Set persistence                                                         *)
(***************************************************************************)

\* Longest array passed to save_sets.
MaxArrLen == 1

\* The directory all calls use (the `path` argument, with its trailing separator).
Path == "../data/processed/"

\* The six parameters of save_sets, in the order of its signature, which is
\* also the order of load_sets' return tuple.
Slots == <<"X_train", "y_train", "X_val", "y_val", "X_test", "y_test">>

SlotSet == {Slots[i] : i \in 1..Len(Slots)}

\* The order in which save_sets tests and writes its arguments.
WriteOrderSignature == Slots
WriteOrder == <<"X_train", "X_val", "X_test", "y_train", "y_val", "y_test">>

\* The order in which load_sets tests and reads the files.
ReadOrder == <<"X_train", "X_val", "X_test", "y_train", "y_val", "y_test">>

\* The order of load_sets' return statement.
ReturnOrderAsRead == ReadOrder
ReturnOrder == <<"X_train", "y_train", "X_val", "y_val", "X_test", "y_test">>

\* f'{path}X_train': the name save_sets hands to np.save.
SaveNameCopied(path, slot) == path \o "X_train"
SaveName(path, slot) == path \o slot

\* np.save appends ".npy" to a file name that does not end with it; none of
\* the six names save_sets builds does.
NpSaveFile(file) == file \o ".npy"

\* f'{path}X_train.npy': the name load_sets tests and loads.
LoadName(path, slot) == path \o slot \o ".npy"

\* An ndarray: its shape and its elements in C order.
Array(n, v) == [shape |-> <<n>>, data |-> [i \in 1..n |-> v]]

\* The .npy serialisation: a header (magic string, shape) and the flat data.
NpyEncode(arr) == [magic |-> "NUMPY", shape |-> arr.shape, data |-> arr.data]

NpyDecode(bytes) == [shape |-> bytes.shape, data |-> bytes.data]

IsFile(dir, file) == file \in DOMAIN dir

\* np.save(file, arr): creates or overwrites the file.
NpSave(dir, file, arr) ==
    [f \in DOMAIN dir \cup {NpSaveFile(file)} |->
        IF f = NpSaveFile(file) THEN NpyEncode(arr) ELSE dir[f]]

\* save_sets' body run over the first n entries of WriteOrder: each argument
\* that is not None is written, the others are skipped.
RECURSIVE SaveFirst(_, _, _, _)
SaveFirst(dir, path, args, n) ==
    IF n = 0 THEN dir
    ELSE LET before == SaveFirst(dir, path, args, n - 1)
             slot == WriteOrder[n]
         IN  IF IsNone(args[slot]) THEN before
             ELSE NpSave(before, SaveName(path, slot), Val(args[slot]))

Position(slot) == CHOOSE i \in 1..Len(WriteOrder) : WriteOrder[i] = slot

\* The directory after save_sets(args, path) in which the write of slot
\* `failAt` raises (an OSError out of np.save's open: the file is not
\* touched), or in which no write raises (failAt = None): the writes before
\* the failing one are done and the call ends at the failing one.
SaveSetsDir(dir, path, args, failAt) ==
    IF IsNone(failAt) THEN SaveFirst(dir, path, args, Len(WriteOrder))
    ELSE SaveFirst(dir, path, args, Position(Val(failAt)) - 1)

\* One slot of load_sets: np.load(...) if os.path.isfile(...) else None.
LoadSlot(dir, path, slot) ==
    IF IsFile(dir, LoadName(path, slot))
    THEN Some(NpyDecode(dir[LoadName(path, slot)]))
    ELSE None

\* load_sets' return tuple.
LoadSetsRet(dir, path) == [i \in 1..Len(ReturnOrder) |-> LoadSlot(dir, path, ReturnOrder[i])]

\* The arguments of one save_sets call: each slot None or an array. The i-th
\* parameter's arrays hold i's, so that no two slots are passed equal
\* non-empty arrays; an array of length 0 is passed too.
SlotId(slot) == CHOOSE i \in 1..Len(Slots) : Slots[i] = slot

SaveArgs ==
    { [s \in SlotSet |-> IF s \in m THEN Some(Array(n, SlotId(s))) ELSE None] :
        m \in SUBSET SlotSet, n \in 0..MaxArrLen }

NoArgs == [s \in SlotSet |-> None]

InitSets ==
    /\ fs = << >>
    /\ hist = NoArgs
    /\ call = NoCall
    /\ df = << >>
    /\ fig = << >>

\* An exception that reached the caller: nothing catches it, and the run ends.
Raised == call.fn # "none" /\ call.raised

\* save_sets(..., path=Path). A write can fail only where a write is made.
\* hist keeps, per slot, the last array passed by a call that returned.
\* Between two save_sets calls the caller is taken to call load_sets, which
\* leaves the directory alone, so the directory goes through the same
\* contents as under any sequence of save_sets calls.
SaveSets(args, failAt) ==
    /\ IF IsNone(failAt) THEN TRUE ELSE ~IsNone(args[Val(failAt)])
    /\ fs' = SaveSetsDir(fs, Path, args, failAt)
    /\ call' = [fn |-> "save_sets", args |-> args, failAt |-> failAt,
                raised |-> ~IsNone(failAt)]
    /\ hist' = IF IsNone(failAt)
               THEN [s \in SlotSet |-> IF IsNone(args[s]) THEN hist[s] ELSE args[s]]
               ELSE hist
    /\ UNCHANGED <<df, fig>>

\* load_sets(path=Path).
LoadSets ==
    /\ ~Raised
    /\ call' = [fn |-> "load_sets", ret |-> LoadSetsRet(fs, Path), raised |-> FALSE]
    /\ UNCHANGED <<fs, hist, df, fig>>

SaveSetsCall ==
    /\ ~Raised
    /\ call.fn # "save_sets"
    /\ \E args \in SaveArgs, failAt \in {None} \cup {Some(s) : s \in SlotSet} :
          SaveSets(args, failAt)

NextSets == SaveSetsCall \/ LoadSets

SpecSets == InitSets /\ [][NextSets]_vars

(***************************************************************************)
(* Tables                                                                  *)
(*                                                                         *)
(* A dataframe is its row labels (index) and its columns in order, each a  *)
(* name, a dtype and one cell per row. A series is one column with the row *)
(* labels. A cell is a missing value (NaN), a number (a fraction n/d in    *)
(* lowest terms) or a string.                                              *)
(***************************************************************************)

NaN == [k |-> "nan", n |-> 0, d |-> 1, s |-> ""]
Num(n, d) == [k |-> "num", n |-> n, d |-> d, s |-> ""]
Str(s) == [k |-> "str", n |-> 0, d |-> 1, s |-> s]

IsNa(x) == x.k = "nan"

Max(a, b) == IF a < b THEN b ELSE a
Min(a, b) == IF a < b THEN a ELSE b

Range(seq) == {seq[i] : i \in 1..Len(seq)}

Column(name, dtype, vals) == [name |-> name, dtype |-> dtype, vals |-> vals]

DfLen(t) == Len(t.index)

ColNames(t) == [i \in 1..Len(t.cols) |-> t.cols[i].name]

HasCol(t, c) == \E i \in 1..Len(t.cols) : t.cols[i].name = c

ColOf(t, c) == t.cols[CHOOSE i \in 1..Len(t.cols) : t.cols[i].name = c]

\* df[c]: the column as a series.
GetColumn(t, c) ==
    [name |-> c, dtype |-> ColOf(t, c).dtype, index |-> t.index, vals |-> ColOf(t, c).vals]

\* What DataFrame.pop leaves behind: the frame without the column, the other
\* columns in their order.
DropLastColumn(t, c) == [t EXCEPT !.cols = SubSeq(t.cols, 1, Len(t.cols) - 1)]
DropColumn(t, c) == [t EXCEPT !.cols = SelectSeq(t.cols, LAMBDA col : col.name # c)]

\* A Python slice bound on a sequence of length n: a negative bound counts
\* from the end, and bounds outside the sequence are clipped to it.
ClipBound(i, n) == IF i < 0 THEN Max(i + n, 0) ELSE Min(i, n)

\* seq[start:stop]
PySlice(seq, start, stop) ==
    SubSeq(seq, ClipBound(start, Len(seq)) + 1, ClipBound(stop, Len(seq)))

\* features[start:stop]: the rows at those positions.
DfSlice(t, start, stop) ==
    [index |-> PySlice(t.index, start, stop),
     cols |-> [i \in 1..Len(t.cols) |->
                 [t.cols[i] EXCEPT !.vals = PySlice(t.cols[i].vals, start, stop)]]]

\* target[start:stop]
SeriesSlice(sr, start, stop) ==
    [sr EXCEPT !.index = PySlice(sr.index, start, stop),
               !.vals = PySlice(sr.vals, start, stop)]

(***************************************************************************)
(* pop_target, subset_x_y, split_sets_by_time                              *)
(***************************************************************************)

\* pop_target(df, target_col): works on df.copy(); a KeyError out of pop when
\* the column is not there.
PopTargetRet(t, target_col) ==
    IF HasCol(t, target_col)
    THEN [raised |-> FALSE, ret |-> <<DropColumn(t, target_col), GetColumn(t, target_col)>>]
    ELSE [raised |-> TRUE, ret |-> <<"KeyError">>]

\* subset_x_y(target, features, start_index, end_index)
SubsetXYRet(target, features, start_index, end_index) ==
    <<DfSlice(features, start_index, end_index), SeriesSlice(target, start_index, end_index)>>

\* cutoff = int(len(df_copy) / 5)
Cutoff(n) == n \div 5

\* The slice bounds split_sets_by_time hands to subset_x_y.
TrainStop(cutoff) == -cutoff * 2
ValStartOffByOne(cutoff) == -cutoff * 2 + 1
ValStart(cutoff) == -cutoff * 2
ValStop(cutoff) == -cutoff
TestStart(cutoff) == -cutoff

\* split_sets_by_time(df, target_col, test_ratio): test_ratio is not read. The
\* return statement names X_train, y_train, X_val, y_val, X_test and ends
\* there: a tuple of five.
SplitSetsByTimeRet(t, target_col, test_ratio) ==
    IF ~HasCol(t, target_col) THEN [raised |-> TRUE, ret |-> <<"KeyError">>]
    ELSE LET df_copy == DropColumn(t, target_col)
             target == GetColumn(t, target_col)
             cutoff == Cutoff(DfLen(df_copy))
             train == SubsetXYRet(target, df_copy, 0, TrainStop(cutoff))
             val == SubsetXYRet(target, df_copy, ValStart(cutoff), ValStop(cutoff))
             test == SubsetXYRet(target, df_copy, TestStart(cutoff), DfLen(df_copy))
         IN  [raised |-> FALSE,
              ret |-> <<train[1], train[2], val[1], val[2], test[1]>>]


(***************************************************************************)
(* data_cleaning                                                           *)
(***************************************************************************)

Abs(a) == IF a < 0 THEN -a ELSE a

RECURSIVE Gcd(_, _)
Gcd(a, b) == IF b = 0 THEN a ELSE Gcd(b, a % b)

\* The number n/d (d > 0) in lowest terms.
Frac(n, d) == Num(n \div Gcd(Abs(n), d), d \div Gcd(Abs(n), d))

Add(a, b) == Frac(a.n * b.d + b.n * a.d, a.d * b.d)

RECURSIVE Sum(_)
Sum(xs) == IF xs = <<>> THEN Num(0, 1) ELSE Add(xs[1], Sum(Tail(xs)))

Mean(xs) == Frac(Sum(xs).n, Sum(xs).d * Len(xs))

\* The order of cell values: numbers by value, strings as Python orders them
\* (capitals first), numbers before strings.
StrOrder == <<"A", "B", "a", "b">>
StrRank(s) == CHOOSE i \in 1..Len(StrOrder) : StrOrder[i] = s

Less(a, b) ==
    IF a.k = "num" /\ b.k = "num" THEN a.n * b.d < b.n * a.d
    ELSE IF a.k = "str" /\ b.k = "str" THEN StrRank(a.s) < StrRank(b.s)
    ELSE a.k = "num"

Count(xs, v) == Cardinality({i \in 1..Len(xs) : xs[i] = v})

\* The most frequent value, the smallest of them on a tie.
MostFrequent(xs) ==
    CHOOSE v \in Range(xs) :
        \A w \in Range(xs) \ {v} :
            \/ Count(xs, v) > Count(xs, w)
            \/ Count(xs, v) = Count(xs, w) /\ Less(v, w)

Observed(vals) == SelectSeq(vals, LAMBDA x : ~IsNa(x))

\* SimpleImputer's statistic of one column, fitted on its observed values.
Statistic(vals, strategy) ==
    IF strategy = "mean" THEN Mean(Observed(vals)) ELSE MostFrequent(Observed(vals))

Fill(vals, stat) == [i \in 1..Len(vals) |-> IF IsNa(vals[i]) THEN stat ELSE vals[i]]

NumDtypes == {"float64", "int64"}
CatDtypes == {"object"}

\* The dtype of the array df[columns] hands to the imputer, which is the
\* dtype of what most_frequent returns; mean works in float64.
ArrayDtype(X, strategy) ==
    IF strategy = "mean" THEN "float64"
    ELSE IF \E i \in 1..Len(X) : X[i].dtype \notin NumDtypes THEN "object"
    ELSE IF \A i \in 1..Len(X) : X[i].dtype = "int64" THEN "int64"
    ELSE "float64"

\* SimpleImputer(strategy).fit_transform(X), X the selected columns: a
\* ValueError for a selection of no columns or no rows, and for the mean of
\* strings; a column with no observed value is dropped from the output.
FitTransform(X, nrows, strategy) ==
    IF Len(X) = 0 \/ nrows = 0
    THEN [raised |-> TRUE, out |-> <<>>, dtype |-> ""]
    ELSE IF strategy = "mean" /\ \E i \in 1..Len(X) : \E j \in 1..nrows : X[i].vals[j].k = "str"
    THEN [raised |-> TRUE, out |-> <<>>, dtype |-> ""]
    ELSE LET kept == SelectSeq(X, LAMBDA c : Observed(c.vals) # <<>>)
         IN  [raised |-> FALSE,
              out |-> [i \in 1..Len(kept) |-> Fill(kept[i].vals, Statistic(kept[i].vals, strategy))],
              dtype |-> ArrayDtype(X, strategy)]

PosIn(names, c) == CHOOSE i \in 1..Len(names) : names[i] = c

\* df[columns] = imputer.fit_transform(df[columns]), on the caller's frame: the
\* assignment raises ValueError when the output has fewer columns than the key.
ImputeAssign(t, columns, strategy) ==
    LET X == [i \in 1..Len(columns) |-> ColOf(t, columns[i])]
        r == FitTransform(X, DfLen(t), strategy)
    IN  IF r.raised \/ Len(r.out) # Len(columns)
        THEN [raised |-> TRUE, t |-> t]
        ELSE [raised |-> FALSE,
              t |-> [t EXCEPT !.cols =
                       [i \in 1..Len(t.cols) |->
                          IF t.cols[i].name \in Range(columns)
                          THEN Column(t.cols[i].name, r.dtype,
                                      r.out[PosIn(columns, t.cols[i].name)])
                          ELSE t.cols[i]]]]

\* df.select_dtypes(include=dtypes).columns
SelectDtypes(t, dtypes) ==
    LET sel == SelectSeq(t.cols, LAMBDA c : c.dtype \in dtypes)
    IN  [i \in 1..Len(sel) |-> sel[i].name]

\* The transforms a caller registers:
\*   upper  lambda x: x.upper()                          (AttributeError on a number)
\*   blank  lambda x: np.nan if x in (0, 'a') else x
\*   nan    lambda x: np.nan
\*   len    lambda x: len(x)                             (TypeError on a number)
Funcs == {"upper", "blank", "nan", "len"}

Upper(s) == IF s = "a" THEN "A" ELSE IF s = "b" THEN "B" ELSE s

ApplyFunc(f, x) ==
    IF f = "upper"
    THEN IF x.k = "str" THEN [raised |-> FALSE, v |-> Str(Upper(x.s))] ELSE [raised |-> TRUE, v |-> x]
    ELSE IF f = "blank"
    THEN [raised |-> FALSE, v |-> IF x = Num(0, 1) \/ x = Str("a") THEN NaN ELSE x]
    ELSE IF f = "nan"
    THEN [raised |-> FALSE, v |-> NaN]
    ELSE IF x.k = "str" THEN [raised |-> FALSE, v |-> Num(Len(x.s), 1)] ELSE [raised |-> TRUE, v |-> x]

\* The dtype pandas infers for the column apply returns.
InferDtype(vals, from, f) ==
    IF \E i \in 1..Len(vals) : vals[i].k = "str" THEN "object"
    ELSE IF \E i \in 1..Len(vals) : IsNa(vals[i]) THEN "float64"
    ELSE IF f = "len" \/ from = "int64" THEN "int64"
    ELSE "float64"

\* df[col] = df[col].apply(lambda x: func(x) if pd.notna(x) else np.nan)
ApplyTransform(t, col, f) ==
    IF ~HasCol(t, col) THEN [raised |-> TRUE, t |-> t]
    ELSE LET old == ColOf(t, col)
             res == [i \in 1..Len(old.vals) |->
                       IF IsNa(old.vals[i]) THEN [raised |-> FALSE, v |-> NaN]
                       ELSE ApplyFunc(f, old.vals[i])]
             new == [i \in 1..Len(old.vals) |-> res[i].v]
         IN  IF \E i \in 1..Len(old.vals) : res[i].raised
             THEN [raised |-> TRUE, t |-> t]
             ELSE [raised |-> FALSE,
                   t |-> [t EXCEPT !.cols =
                            [i \in 1..Len(t.cols) |->
                               IF t.cols[i].name = col
                               THEN Column(col, InferDtype(new, old.dtype, f), new)
                               ELSE t.cols[i]]]]

\* The loop over special_column_transformations.items(), a sequence of
\* <<column, function>> pairs; it ends at the first transform that raises.
RECURSIVE ApplyTransforms(_, _)
ApplyTransforms(t, transforms) ==
    IF transforms = <<>> THEN [raised |-> FALSE, t |-> t]
    ELSE LET first == ApplyTransform(t, transforms[1][1], transforms[1][2])
         IN  IF first.raised THEN first ELSE ApplyTransforms(first.t, Tail(transforms))

\* data_cleaning(df, num_columns, cat_columns, num_impute_strategy,
\* cat_impute_strategy, special_column_transformations): every step assigns
\* into df itself, and df is what is returned. t is df as the call leaves it,
\* also when a step raises. The same two imputers are fitted again in the
\* final fallback, on the columns that are numeric and categorical by then.
DataCleaningRet(t, num_columns, cat_columns, num_strategy, cat_strategy, transforms) ==
    LET numc == IF IsNone(num_columns) THEN SelectDtypes(t, NumDtypes) ELSE Val(num_columns)
        s1 == ImputeAssign(t, numc, num_strategy)
        catc == IF IsNone(cat_columns) THEN SelectDtypes(s1.t, CatDtypes) ELSE Val(cat_columns)
        s2 == ImputeAssign(s1.t, catc, cat_strategy)
        s3 == ApplyTransforms(s2.t, transforms)
        s4 == ImputeAssign(s3.t, SelectDtypes(s3.t, NumDtypes), num_strategy)
        s5 == ImputeAssign(s4.t, SelectDtypes(s4.t, CatDtypes), cat_strategy)
    IN  IF s1.raised THEN s1
        ELSE IF s2.raised THEN s2
        ELSE IF s3.raised THEN s3
        ELSE IF s4.raised THEN s4
        ELSE s5

(***************************************************************************)
(* The table functions called on a caller's dataframe                      *)
(***************************************************************************)

\* Most rows of a table handed to the splitter.
MaxRows == 11

RowLabels(n) == [i \in 1..n |-> i - 1]

\* A table of n rows whose cells are all different: row r of the j-th column
\* holds 10 r + j.
RangeTable(n, names) ==
    [index |-> RowLabels(n),
     cols |-> [j \in 1..Len(names) |->
                 Column(names[j], "int64", [i \in 1..n |-> Num(10 * (i - 1) + j, 1)])]]

Schemas == {<<"y">>, <<"a", "y">>, <<"y", "a">>, <<"a", "y", "b">>}

SplitTables == {RangeTable(n, names) : n \in 0..MaxRows, names \in Schemas}

\* Tables with missing values: one column of three rows, or two of two; a
\* column is float64, object or int64 (which holds no NaN).
CleanColumns(name, rows) ==
    {Column(name, "float64", v) : v \in [rows -> {NaN, Num(0, 1), Num(1, 1)}]}
    \cup {Column(name, "object", v) : v \in [rows -> {NaN, Str("a"), Str("b")}]}
    \cup {Column(name, "int64", v) : v \in [rows -> {Num(0, 1), Num(1, 1)}]}

CleanTables ==
    {[index |-> RowLabels(3), cols |-> <<c>>] : c \in CleanColumns("a", 1..3)}
    \cup {[index |-> RowLabels(2), cols |-> <<c, d>>] :
            c \in CleanColumns("a", 1..2), d \in CleanColumns("y", 1..2)}

Tables == SplitTables \cup CleanTables

\* Column names a caller asks for; "z" is in no table.
TargetCols == {"a", "b", "y", "z"}

\* test_ratio, in percent.
TestRatios == {20, 30}

\* Explicit column lists: one column, or all of them.
ColumnLists(t) ==
    {None, Some(ColNames(t))} \cup {Some(<<ColNames(t)[i]>>) : i \in 1..Len(t.cols)}

\* special_column_transformations: None, or one column's transform.
TransformDicts(t) ==
    {<<>>} \cup {<< <<ColNames(t)[i], f>> >> : i \in 1..Len(t.cols), f \in Funcs}

NumStrategies == {"mean", "most_frequent"}
CatStrategies == {"most_frequent"}

InitData ==
    /\ df \in Tables
    /\ call = NoCall
    /\ fs = << >>
    /\ hist = NoArgs
    /\ fig = << >>

\* features, target = pop_target(df, target_col)
PopTarget(target_col) ==
    /\ call' = [fn |-> "pop_target", before |-> df, target_col |-> target_col,
                raised |-> PopTargetRet(df, target_col).raised,
                ret |-> PopTargetRet(df, target_col).ret]
    /\ UNCHANGED <<df, fs, hist, fig>>

\* subset_x_y(df[c], df, start_index, end_index)
SubsetXY(c, start_index, end_index) ==
    /\ HasCol(df, c)
    /\ call' = [fn |-> "subset_x_y", before |-> df, target |-> GetColumn(df, c),
                start_index |-> start_index, end_index |-> end_index,
                raised |-> FALSE,
                ret |-> SubsetXYRet(GetColumn(df, c), df, start_index, end_index)]
    /\ UNCHANGED <<df, fs, hist, fig>>

\* split_sets_by_time(df, target_col, test_ratio)
SplitSetsByTime(target_col, test_ratio) ==
    /\ call' = [fn |-> "split_sets_by_time", before |-> df, target_col |-> target_col,
                test_ratio |-> test_ratio,
                raised |-> SplitSetsByTimeRet(df, target_col, test_ratio).raised,
                ret |-> SplitSetsByTimeRet(df, target_col, test_ratio).ret]
    /\ UNCHANGED <<df, fs, hist, fig>>

\* data_cleaning(df, ...): df is assigned into, and returned.
DataCleaning(num_columns, cat_columns, num_strategy, cat_strategy, transforms) ==
    LET r == DataCleaningRet(df, num_columns, cat_columns, num_strategy, cat_strategy, transforms)
    IN  /\ df' = r.t
        /\ call' = [fn |-> "data_cleaning", before |-> df,
                    num_columns |-> num_columns, cat_columns |-> cat_columns,
                    num_strategy |-> num_strategy, cat_strategy |-> cat_strategy,
                    transforms |-> transforms,
                    raised |-> r.raised,
                    ret |-> IF r.raised THEN <<"Error">> ELSE <<r.t>>]
        /\ UNCHANGED <<fs, hist, fig>>

\* One call on each table: the functions keep nothing between calls.
PopTargetCall ==
    /\ call = NoCall
    /\ \E c \in TargetCols : PopTarget(c)

SubsetXYCall ==
    /\ call = NoCall
    /\ \E c \in TargetCols, i, j \in -(MaxRows + 1)..(MaxRows + 1) : SubsetXY(c, i, j)

SplitSetsByTimeCall ==
    /\ call = NoCall
    /\ \E c \in TargetCols, r \in TestRatios : SplitSetsByTime(c, r)

DataCleaningCall ==
    /\ call = NoCall
    /\ \E nc \in ColumnLists(df), cc \in ColumnLists(df), ns \in NumStrategies,
          cs \in CatStrategies, tr \in TransformDicts(df) :
          DataCleaning(nc, cc, ns, cs, tr)

NextData == PopTargetCall \/ SubsetXYCall \/ SplitSetsByTimeCall \/ DataCleaningCall

SpecData == InitData /\ [][NextData]_vars

(***************************************************************************)
(* Plotting helpers                                                        *)
(***************************************************************************)

\* The kinds each function's ValueError message names.
DistributionMessage == <<"hist", "kdeplot", "boxplot", "violinplot">>
CategoricalMessage == <<"barplot", "countplot", "pointplot", "stripplot", "swarmplot">>
RelationshipMessage == <<"scatterplot", "lineplot", "jointplot">>

\* A call that drew: the arguments, the plotting routine called and the title set.
Drawn(fn, args, kind, routine, title) ==
    [fn |-> fn, args |-> args, kind |-> kind, raised |-> FALSE, drew |-> routine,
     title |-> title, message |-> <<>>]

\* A call that raised ValueError, with the kinds its message names.
Invalid(fn, args, kind, message) ==
    [fn |-> fn, args |-> args, kind |-> kind, raised |-> TRUE, drew |-> "", title |-> "",
     message |-> message]

\* distribution_plot(df, x, kind, kde)
DistributionPlotRet(x, kind, kde) ==
    IF kind = "hist"
    THEN Drawn("distribution_plot", <<x, kde>>, kind, IF kde THEN "sns.histplot+kde" ELSE "sns.histplot",
               "Histogram of " \o x)
    ELSE IF kind = "kdeplot"
    THEN Drawn("distribution_plot", <<x, kde>>, kind, "sns.kdeplot", "KDE Plot of " \o x)
    ELSE IF kind = "boxplot"
    THEN Drawn("distribution_plot", <<x, kde>>, kind, "sns.boxplot", "Boxplot of " \o x)
    ELSE IF kind = "violinplot"
    THEN Drawn("distribution_plot", <<x, kde>>, kind, "sns.violinplot", "Violin Plot of " \o x)
    ELSE IF kind = "piechart"
    THEN Drawn("distribution_plot", <<x, kde>>, kind, "ax.pie", "Pie Chart of " \o x)
    ELSE IF kind = "countplot"
    THEN Drawn("distribution_plot", <<x, kde>>, kind, "sns.countplot", "Countplot of " \o x)
    ELSE Invalid("distribution_plot", <<x, kde>>, kind, DistributionMessage)

\* categorical_plot(df, x, y, kind, hue)
CategoricalPlotRet(x, y, kind) ==
    IF kind = "barplot"
    THEN Drawn("categorical_plot", <<x, y>>, kind, "sns.barplot", "Barplot of " \o x \o " vs " \o y)
    ELSE IF kind = "pointplot"
    THEN Drawn("categorical_plot", <<x, y>>, kind, "sns.pointplot", "Point Plot of " \o x \o " vs " \o y)
    ELSE IF kind = "stripplot"
    THEN Drawn("categorical_plot", <<x, y>>, kind, "sns.stripplot", "Stripplot of " \o x \o " vs " \o y)
    ELSE IF kind = "swarmplot"
    THEN Drawn("categorical_plot", <<x, y>>, kind, "sns.swarmplot", "Swarmplot of " \o x \o " vs " \o y)
    ELSE Invalid("categorical_plot", <<x, y>>, kind, CategoricalMessage)

\* relationship_plot(df, x, y, kind, hue); jointplot returns from inside its branch.
RelationshipPlotRet(x, y, kind) ==
    IF kind = "scatterplot"
    THEN Drawn("relationship_plot", <<x, y>>, kind, "sns.scatterplot", "Scatterplot of " \o x \o " vs " \o y)
    ELSE IF kind = "lineplot"
    THEN Drawn("relationship_plot", <<x, y>>, kind, "sns.lineplot", "Line Plot of " \o x \o " vs " \o y)
    ELSE IF kind = "jointplot"
    THEN Drawn("relationship_plot", <<x, y>>, kind, "sns.jointplot", "Jointplot of " \o x \o " vs " \o y)
    ELSE Invalid("relationship_plot", <<x, y>>, kind, RelationshipMessage)

\* The kinds a caller passes: every kind a branch, a docstring or a message
\* names, and one that none does.
Kinds ==
    {"hist", "kdeplot", "boxplot", "violinplot", "piechart", "countplot",
     "barplot", "pointplot", "stripplot", "swarmplot",
     "scatterplot", "lineplot", "pairplot", "jointplot", "heatmap"}

\* The columns of the table plotted; "None" is y left out.
PlotCols == {"a", "y"}
PlotYs == {"a", "y", "None"}

InitPlot ==
    /\ fig = NoCall
    /\ call = NoCall
    /\ df = << >>
    /\ fs = << >>
    /\ hist = NoArgs

DistributionPlot(x, kind, kde) ==
    /\ fig' = DistributionPlotRet(x, kind, kde)
    /\ UNCHANGED <<call, df, fs, hist>>

CategoricalPlot(x, y, kind) ==
    /\ fig' = CategoricalPlotRet(x, y, kind)
    /\ UNCHANGED <<call, df, fs, hist>>

RelationshipPlot(x, y, kind) ==
    /\ fig' = RelationshipPlotRet(x, y, kind)
    /\ UNCHANGED <<call, df, fs, hist>>

NextPlot ==
    \/ \E x \in PlotCols, kind \in Kinds, kde \in BOOLEAN : DistributionPlot(x, kind, kde)
    \/ \E x \in PlotCols, y \in PlotYs, kind \in Kinds : CategoricalPlot(x, y, kind)
    \/ \E x \in PlotCols, y \in PlotCols, kind \in Kinds : RelationshipPlot(x, y, kind)

SpecPlot == InitPlot /\ [][NextPlot]_vars

(***************************************************************************)
(* Claims about set persistence                                            *)
(***************************************************************************)

\* What a slot's file holds, as the spec names the files: the slot's name with
\* the binary array extension, under the path. None when there is no file.
Held(dir, slot) ==
    IF (Path \o slot \o ".npy") \in DOMAIN dir
    THEN Some([shape |-> dir[Path \o slot \o ".npy"].shape,
               data |-> dir[Path \o slot \o ".npy"].data])
    ELSE None

SavedStep == call'.fn = "save_sets"
ReturnedSaveStep == call'.fn = "save_sets" /\ ~call'.raised
LoadAfterSaveStep == call.fn = "save_sets" /\ ~call.raised /\ call'.fn = "load_sets"

\* C3 as stated: after save_sets returns, a following load_sets returns each
\* passed array in its own slot and None in every slot whose array was not
\* passed.
C3_RoundTripAsStated ==
    [][LoadAfterSaveStep =>
          \A i \in 1..6 : call'.ret[i] = call.args[Slots[i]]]_vars

\* C3, amended: after save_sets returns, a following load_sets returns, in the
\* order X_train, y_train, X_val, y_val, X_test, y_test, each passed array
\* unchanged in its own slot; a slot that was not passed returns what its file
\* held before the save_sets call, and None only if it had no file.
C3_RoundTrip ==
    [][/\ ReturnedSaveStep =>
            \A s \in SlotSet : IsNone(call'.args[s]) => Held(fs', s) = Held(fs, s)
       /\ LoadAfterSaveStep =>
            /\ Len(call'.ret) = 6
            /\ \A i \in 1..6 :
                 call'.ret[i] = IF IsNone(call.args[Slots[i]])
                                THEN Held(fs, Slots[i])
                                ELSE call.args[Slots[i]]]_vars

\* A load_sets after two save_sets calls that passed different slots (one an
\* array of length 0): both arrays come back, and None for a slot never passed.
C3_Witness ==
    /\ call.fn = "load_sets"
    /\ IsNone(call.ret[1])
    /\ call.ret[2] = Some(Array(0, 2)) /\ hist["y_train"] = Some(Array(0, 2))
    /\ call.ret[3] = Some(Array(1, 3)) /\ hist["X_val"] = Some(Array(1, 3))

C9_Order == <<"X_train", "X_val", "X_test", "y_train", "y_val", "y_test">>

C9_Before(s, t) ==
    \E i, j \in 1..6 : i < j /\ C9_Order[i] = s /\ C9_Order[j] = t

\* C9: save_sets writes its non-None arrays in the order X_train, X_val,
\* X_test, y_train, y_val, y_test; when a write fails the call raises, every
\* slot written before the failing one holds the array passed, and no slot
\* after it is written.
C9_FailedWriteKeepsEarlier ==
    [][(SavedStep /\ ~IsNone(call'.failAt)) =>
          /\ call'.raised
          /\ \A s \in SlotSet :
               /\ (C9_Before(s, Val(call'.failAt)) /\ ~IsNone(call'.args[s]))
                    => Held(fs', s) = call'.args[s]
               /\ C9_Before(Val(call'.failAt), s) => Held(fs', s) = Held(fs, s)]_vars

\* A call whose write of X_test failed: X_train, passed, is written, and
\* y_train, passed too, is not.
C9_Witness ==
    /\ call.fn = "save_sets" /\ call.raised
    /\ call.failAt = Some("X_test")
    /\ call.args["X_train"] = Some(Array(1, 1)) /\ Held(fs, "X_train") = Some(Array(1, 1))
    /\ call.args["y_train"] = Some(Array(1, 2)) /\ IsNone(Held(fs, "y_train"))

(***************************************************************************)
(* Claims about the table functions                                        *)
(***************************************************************************)

Concat3(a, b, c) == a \o b \o c

SplitReturned == call.fn = "split_sets_by_time" /\ ~call.raised

\* The feature columns of the table a call was given: all but the target.
FeatureNames(t, target_col) == SelectSeq(ColNames(t), LAMBDA n : n # target_col)

\* C1: for a table of any length N >= 0 the train, validation and test
\* features returned by split_sets_by_time are runs of rows which, one after
\* the other, are exactly rows 0..N-1 of the input in their order, in every
\* feature column: no row dropped, none twice.
C1_SplitCoversEveryRowOnce ==
    SplitReturned =>
        LET train == call.ret[1]
            val == call.ret[3]
            test == call.ret[5]
            rows == Concat3(train.index, val.index, test.index)
            names == FeatureNames(call.before, call.target_col)
        IN  /\ rows = [i \in 1..DfLen(call.before) |-> i - 1]
            /\ Cardinality(Range(rows)) = Len(rows)
            /\ ColNames(train) = names /\ ColNames(val) = names /\ ColNames(test) = names
            /\ \A j \in 1..Len(names) :
                 Concat3(train.cols[j].vals, val.cols[j].vals, test.cols[j].vals)
                   = ColOf(call.before, names[j]).vals

\* A split of ten rows in two feature columns, all three parts non-empty.
C1_Witness ==
    /\ SplitReturned
    /\ DfLen(call.before) = 10 /\ Len(call.before.cols) = 3
    /\ call.ret[1].index = <<0, 1, 2, 3, 4, 5>>
    /\ call.ret[3].index = <<6, 7>>
    /\ call.ret[5].index = <<8, 9>>

\* C2: split_sets_by_time returns six values, train features, train target,
\* validation features, validation target, test features, test target, each
\* target over the same rows as the features before it.
C2_SplitReturnsSixValues ==
    SplitReturned =>
        /\ Len(call.ret) = 6
        /\ \A i \in {1, 3, 5} : call.ret[i + 1].index = call.ret[i].index
        /\ \A i \in {2, 4, 6} : call.ret[i].name = call.target_col

\* C4: with c = floor(N/5) and whatever test_ratio is, train is the first
\* N - 2c rows, validation the next c rows and test the last c rows.
C4_SplitSizes ==
    SplitReturned =>
        LET n == DfLen(call.before)
            c == n \div 5
        IN  /\ call.ret[1].index = [i \in 1..(n - 2 * c) |-> i - 1]
            /\ call.ret[3].index = [i \in 1..c |-> n - 2 * c + i - 1]
            /\ call.ret[5].index = [i \in 1..c |-> n - c + i - 1]

\* C5: for a table T and a column c of T, pop_target(T, c) returns the
\* features, which are T's columns except c in their order and unchanged, and
\* the target, which is T[c]; both have T's rows in T's order.
C5_PopTargetSplitsOffTheColumn ==
    (call.fn = "pop_target" /\ HasCol(call.before, call.target_col)) =>
        /\ ~call.raised
        /\ Len(call.ret) = 2
        /\ LET features == call.ret[1]
               target == call.ret[2]
               names == FeatureNames(call.before, call.target_col)
           IN  /\ ColNames(features) = names
               /\ \A j \in 1..Len(names) : features.cols[j] = ColOf(call.before, names[j])
               /\ features.index = call.before.index
               /\ target.name = call.target_col
               /\ target.vals = ColOf(call.before, call.target_col).vals
               /\ target.index = call.before.index

\* The middle column of three popped from a table of two rows.
C5_Witness ==
    /\ call.fn = "pop_target" /\ ~call.raised
    /\ ColNames(call.before) = <<"a", "y", "b">> /\ call.target_col = "y"
    /\ DfLen(call.before) = 2
    /\ ColNames(call.ret[1]) = <<"a", "b">>

\* Every numeric and every categorical column holds an observed value.
EveryColumnObserved(t) ==
    \A i \in 1..Len(t.cols) :
        t.cols[i].dtype \in NumDtypes \cup CatDtypes
            => \E j \in 1..Len(t.cols[i].vals) : ~IsNa(t.cols[i].vals[j])

\* C6: given a table whose numeric and categorical columns each hold an
\* observed value, data_cleaning, with any column lists and transforms,
\* returns a table of the same shape with no missing value in a numeric or
\* categorical column.
C6_CleanerLeavesNoMissing ==
    (call.fn = "data_cleaning" /\ EveryColumnObserved(call.before)) =>
        /\ ~call.raised
        /\ Len(call.ret) = 1
        /\ DfLen(call.ret[1]) = DfLen(call.before)
        /\ Len(call.ret[1].cols) = Len(call.before.cols)
        /\ \A i \in 1..Len(call.ret[1].cols) :
             call.ret[1].cols[i].dtype \in NumDtypes \cup CatDtypes
                => \A j \in 1..Len(call.ret[1].cols[i].vals) : ~IsNa(call.ret[1].cols[i].vals[j])

\* C10: after pop_target, subset_x_y, split_sets_by_time or data_cleaning the
\* caller's table has the columns and the values, missing ones included, it
\* had before the call.
C10_CallerTableUntouched ==
    (call.fn \in {"pop_target", "subset_x_y", "split_sets_by_time", "data_cleaning"}
        /\ ~call.raised) =>
        /\ df.index = call.before.index
        /\ ColNames(df) = ColNames(call.before)
        /\ \A i \in 1..Len(df.cols) : df.cols[i].vals = call.before.cols[i].vals

(***************************************************************************)
(* Claims about the plotting helpers                                       *)
(***************************************************************************)

Listed(fn) ==
    IF fn = "distribution_plot" THEN Range(DistributionMessage)
    ELSE IF fn = "categorical_plot" THEN Range(CategoricalMessage)
    ELSE Range(RelationshipMessage)

\* C7: distribution_plot, categorical_plot and relationship_plot raise
\* ValueError exactly when kind is not one of the kinds their own message
\* names.
C7_RaisesExactlyOnUnlistedKind ==
    fig.fn # "none" => (fig.raised <=> fig.kind \notin Listed(fig.fn))

====
